---- MODULE Spec2Model ----
(***************************************************************************)
(* Model of the blockchain-verifier service (src/main.py): the in-memory   *)
(* audit log BLOCKCHAIN_LOG, the /hash and /verify handlers that append to *)
(* it, the read-only endpoints, and validate_blockchain.                   *)
(*                                                                         *)
(* Strings and byte strings are sequences of tokens.  A token is a record: *)
(*   [c |-> "x"]     one character / byte                                  *)
(*   [sha |-> s]     the 64 hex characters of the SHA-256 digest of s      *)
(*                   (SHA-256 is taken to be collision free)               *)
(*   [SHA |-> s]     the same 64 hex characters in upper case              *)
(*   [iso |-> t]     datetime.isoformat() of the instant t                 *)
(*   [off |-> 0]     the UTC offset suffix "+00:00"                        *)
(*   [zeros |-> n]   n characters "0"                                      *)
(* Instants are integers counting minutes from 2023-01-01T00:00:00 UTC.    *)
(* A block is a record whose DOMAIN is the set of keys of the Python dict. *)
(***************************************************************************)
EXTENDS Integers, Sequences, FiniteSets, TLC

VARIABLES log, reqs, response, tamper, call

vars == <<log, reqs, response, tamper, call>>

-----------------------------------------------------------------------------
(* Bounds of the model *)

\* the largest number of blocks the log is let grow to
MaxLog == 3
\* the number of requests that can be in flight at once
NumReqs == 2
\* the longest byte string given to calculate_file_hash on its own
MaxBytes == 5

-----------------------------------------------------------------------------
(* Program constants *)

\* "2023-01-01T00:00:00Z", the origin of the model's instants
GenesisTime == 0
\* timedelta(minutes=10)
Tolerance == 10
\* chunk_size = 64 * 1024, scaled down to 2 bytes
ChunkSize == 2
\* MAX_FILE_SIZE * 1024 * 1024, scaled down to 3 bytes
FileSizeLimit == 3
\* "0" * 64
ZeroLen == 64

-----------------------------------------------------------------------------
(* Strings *)

Chr(x) == [c |-> x]
EmptyStr == <<>>
\* Python's None, where a string is expected
NoneVal == <<[none |-> 0]>>
\* the string "None", which str(None) yields
NoneStr == <<Chr("N"), Chr("o"), Chr("n"), Chr("e")>>
Zeros64 == <<[zeros |-> ZeroLen]>>

Digit(d) == Chr(CASE d = 0 -> "0" [] d = 1 -> "1" [] d = 2 -> "2" [] d = 3 -> "3"
                  [] d = 4 -> "4" [] d = 5 -> "5" [] d = 6 -> "6" [] d = 7 -> "7"
                  [] d = 8 -> "8" [] OTHER -> "9")

RECURSIVE NatStr(_)
NatStr(n) == IF n < 10 THEN <<Digit(n)>> ELSE NatStr(n \div 10) \o <<Digit(n % 10)>>

\* str(n) for an int
IntStr(n) == IF n < 0 THEN <<Chr("-")>> \o NatStr(-n) ELSE NatStr(n)

\* what an f-string field {v} renders for a str or None
Fmt(v) == IF v = NoneVal THEN NoneStr ELSE v

\* str.lower(), token by token
LowerTok(t) ==
    IF "SHA" \in DOMAIN t THEN [sha |-> t.SHA]
    ELSE IF "c" \in DOMAIN t /\ t.c = "A" THEN Chr("a")
    ELSE IF "c" \in DOMAIN t /\ t.c = "B" THEN Chr("b")
    ELSE t
Lower(s) == [i \in 1..Len(s) |-> LowerTok(s[i])]

\* hashlib.sha256(data).hexdigest()
Sha256Hex(data) == <<[sha |-> data]>>

\* Python truthiness of a str or None
Truthy(v) == v # NoneVal /\ v # EmptyStr

\* dict.get(key, default)
Get(d, key, default) == IF key \in DOMAIN d THEN d[key] ELSE default

-----------------------------------------------------------------------------
(* Timestamps *)

\* datetime.isoformat() + "Z"
IsoZ(t) == <<[iso |-> t], Chr("Z")>>

\* str.replace("Z", "+00:00")
ReplaceZ(s) == [i \in 1..Len(s) |-> IF s[i] = Chr("Z") THEN [off |-> 0] ELSE s[i]]

\* datetime.fromisoformat accepts a date-time with or without a UTC offset
IsoParses(s) ==
    /\ s # NoneVal
    /\ Len(s) \in {1, 2}
    /\ "iso" \in DOMAIN s[1]
    /\ Len(s) = 2 => "off" \in DOMAIN s[2]

\* datetime.fromisoformat(s).replace(tzinfo=None)
IsoNaive(s) == s[1].iso

\* the expression of lines 135-136 raises (AttributeError on None, ValueError
\* on a string that is no ISO date-time)
TimeRaises(ts) == ts = NoneVal \/ ~IsoParses(ReplaceZ(ts))
TimeOf(ts) == IsoNaive(ReplaceZ(ts))

-----------------------------------------------------------------------------
(* Digest engine and block hasher *)

RECURSIVE FeedChunks(_, _, _)
\* mutant: the slice one byte short, file_bytes[offset:offset + chunk_size - 1]
FeedChunks_shortSlice(file_bytes, offset, fed) ==
    IF offset < Len(file_bytes)
    THEN FeedChunks(file_bytes, offset + ChunkSize,
                    fed \o SubSeq(file_bytes, offset + 1,
                                  IF offset + ChunkSize - 1 < Len(file_bytes)
                                  THEN offset + ChunkSize - 1 ELSE Len(file_bytes)))
    ELSE fed

\* the while loop of calculate_file_hash: sha256.update(chunk) per chunk
FeedChunks(file_bytes, offset, fed) ==
    IF offset < Len(file_bytes)
    THEN FeedChunks(file_bytes, offset + ChunkSize,
                    fed \o SubSeq(file_bytes, offset + 1,
                                  IF offset + ChunkSize < Len(file_bytes)
                                  THEN offset + ChunkSize ELSE Len(file_bytes)))
    ELSE fed

\* the constant e3b0c442...b855 returned for empty input
EmptyDigest == Sha256Hex(<<>>)

calculate_file_hash(file_bytes) ==
    IF file_bytes = <<>> THEN EmptyDigest
    ELSE Sha256Hex(FeedChunks(file_bytes, 0, <<>>))

\* block['index'], block['previous_hash'], block['timestamp'] raise KeyError
HeaderRaises(block) ==
    ~({"index", "previous_hash", "timestamp"} \subseteq DOMAIN block)

\* mutant: the fields joined by a separator
Header_delimited(block) ==
    IntStr(block.index) \o <<Chr("|")>> \o Fmt(block.previous_hash)
        \o <<Chr("|")>> \o Fmt(block.timestamp)
        \o <<Chr("|")>> \o Fmt(Get(block, "operation", EmptyStr))
        \o <<Chr("|")>> \o Fmt(Get(block, "filename", EmptyStr))
        \o <<Chr("|")>> \o Fmt(Get(block, "result", EmptyStr))

\* the f-string of line 67
Header(block) ==
    IntStr(block.index) \o Fmt(block.previous_hash) \o Fmt(block.timestamp)
        \o Fmt(Get(block, "operation", EmptyStr))
        \o Fmt(Get(block, "filename", EmptyStr))
        \o Fmt(Get(block, "result", EmptyStr))

calculate_block_header_hash(block) == Sha256Hex(Header(block))

\* d[key] = value on a dict, adding the key when it is absent
SetKey(d, key, value) ==
    [k \in DOMAIN d \cup {key} |-> IF k = key THEN value ELSE d[k]]

\* del d[key]
DelKey(d, key) == [k \in DOMAIN d \ {key} |-> d[k]]

\* a string literal, from its characters
Str(chars) == [i \in 1..Len(chars) |-> Chr(chars[i])]

OpGenesis == Str(<<"G", "E", "N", "E", "S", "I", "S">>)
OpHash == Str(<<"H", "A", "S", "H">>)
OpVerification == Str(<<"V", "E", "R", "I", "F", "I", "C", "A", "T", "I", "O", "N">>)
StatusValid == Str(<<"v", "a", "l", "i", "d">>)
StatusInvalid == Str(<<"i", "n", "v", "a", "l", "i", "d">>)

GenesisFields ==
    [index |-> 0, previous_hash |-> Zeros64, timestamp |-> IsoZ(GenesisTime),
     operation |-> OpGenesis, filename |-> EmptyStr, result |-> EmptyStr]

\* mutant: the genesis block numbered 1
create_genesis_block_indexOne ==
    SetKey(SetKey(GenesisFields, "index", 1), "block_hash",
           calculate_block_header_hash(SetKey(GenesisFields, "index", 1)))

create_genesis_block ==
    SetKey(GenesisFields, "block_hash", calculate_block_header_hash(GenesisFields))

-----------------------------------------------------------------------------
(* Chain validator *)

\* BLOCKCHAIN_LOG[i], with Python's 0-based i
Blk(l, i) == l[i + 1]

\* lines 119-122: the predecessor's hash the link check compares with
ResolvePrev(previous_block) ==
    IF Truthy(Get(previous_block, "block_hash", NoneVal))
    THEN previous_block.block_hash
    ELSE Get(previous_block, "hash", Get(previous_block, "current_hash", NoneVal))

\* mutant: the link check left out
CheckAt_noLink(l, i) ==
    LET current_block == Blk(l, i)
        previous_block == Blk(l, i - 1)
    IN  IF "block_hash" \in DOMAIN current_block /\ HeaderRaises(current_block)
             THEN "raise"
        ELSE IF /\ "block_hash" \in DOMAIN current_block
                /\ current_block.block_hash # calculate_block_header_hash(current_block)
             THEN "invalid"
        ELSE IF "timestamp" \notin DOMAIN current_block THEN "raise"
        ELSE IF TimeRaises(current_block.timestamp) THEN "raise"
        ELSE IF "timestamp" \notin DOMAIN previous_block THEN "raise"
        ELSE IF TimeRaises(previous_block.timestamp) THEN "raise"
        ELSE IF TimeOf(current_block.timestamp) < TimeOf(previous_block.timestamp)
             THEN "invalid"
        ELSE "ok"

\* mutant: the timestamp comparison reversed
CheckAt_reversed(l, i) ==
    LET current_block == Blk(l, i)
        previous_block == Blk(l, i - 1)
    IN  IF "previous_hash" \notin DOMAIN current_block THEN "raise"
        ELSE IF current_block.previous_hash # ResolvePrev(previous_block) THEN "invalid"
        ELSE IF "block_hash" \in DOMAIN current_block /\ HeaderRaises(current_block)
             THEN "raise"
        ELSE IF /\ "block_hash" \in DOMAIN current_block
                /\ current_block.block_hash # calculate_block_header_hash(current_block)
             THEN "invalid"
        ELSE IF "timestamp" \notin DOMAIN current_block THEN "raise"
        ELSE IF TimeRaises(current_block.timestamp) THEN "raise"
        ELSE IF "timestamp" \notin DOMAIN previous_block THEN "raise"
        ELSE IF TimeRaises(previous_block.timestamp) THEN "raise"
        ELSE IF TimeOf(current_block.timestamp) > TimeOf(previous_block.timestamp)
             THEN "invalid"
        ELSE "ok"

\* mutant: the header hash compared whether or not the block carries one
CheckAt_alwaysHash(l, i) ==
    LET current_block == Blk(l, i)
        previous_block == Blk(l, i - 1)
    IN  IF "previous_hash" \notin DOMAIN current_block THEN "raise"
        ELSE IF current_block.previous_hash # ResolvePrev(previous_block) THEN "invalid"
        ELSE IF HeaderRaises(current_block) THEN "raise"
        ELSE IF Get(current_block, "block_hash", NoneVal)
                   # calculate_block_header_hash(current_block)
             THEN "invalid"
        ELSE IF "timestamp" \notin DOMAIN current_block THEN "raise"
        ELSE IF TimeRaises(current_block.timestamp) THEN "raise"
        ELSE IF "timestamp" \notin DOMAIN previous_block THEN "raise"
        ELSE IF TimeRaises(previous_block.timestamp) THEN "raise"
        ELSE IF TimeOf(current_block.timestamp) < TimeOf(previous_block.timestamp)
             THEN "invalid"
        ELSE "ok"

\* one pass of the for loop of validate_blockchain, at position i >= 1:
\* "raise", "invalid" (return False, i) or "ok" (fall through to i + 1)
CheckAt(l, i) ==
    LET current_block == Blk(l, i)
        previous_block == Blk(l, i - 1)
    IN  IF "previous_hash" \notin DOMAIN current_block THEN "raise"
        ELSE IF current_block.previous_hash # ResolvePrev(previous_block) THEN "invalid"
        ELSE IF "block_hash" \in DOMAIN current_block /\ HeaderRaises(current_block)
             THEN "raise"
        ELSE IF /\ "block_hash" \in DOMAIN current_block
                /\ current_block.block_hash # calculate_block_header_hash(current_block)
             THEN "invalid"
        ELSE IF "timestamp" \notin DOMAIN current_block THEN "raise"
        ELSE IF TimeRaises(current_block.timestamp) THEN "raise"
        ELSE IF "timestamp" \notin DOMAIN previous_block THEN "raise"
        ELSE IF TimeRaises(previous_block.timestamp) THEN "raise"
        ELSE IF TimeOf(current_block.timestamp) < TimeOf(previous_block.timestamp)
             THEN "invalid"
        ELSE "ok"

Raised == [raised |-> TRUE, valid |-> FALSE, invalid |-> <<>>]
\* the tuple (valid, invalid_index); None is the empty sequence
Verdict(valid, invalid) == [raised |-> FALSE, valid |-> valid, invalid |-> invalid]

RECURSIVE ValidateFrom(_, _)
\* the for loop of lines 114-139, from position i on
ValidateFrom(l, i) ==
    IF i >= Len(l) THEN Verdict(TRUE, <<>>)
    ELSE LET c == CheckAt(l, i)
         IN  IF c = "raise" THEN Raised
             ELSE IF c = "invalid" THEN Verdict(FALSE, <<i>>)
             ELSE ValidateFrom(l, i + 1)

\* mutant: the loop started at range(2, len(BLOCKCHAIN_LOG))
validate_blockchain_fromTwo(l) ==
    IF l = <<>> THEN Verdict(TRUE, <<>>)
    ELSE IF "index" \notin DOMAIN Blk(l, 0) THEN Raised
    ELSE IF Blk(l, 0).index # 0 THEN Verdict(FALSE, <<0>>)
    ELSE IF "previous_hash" \notin DOMAIN Blk(l, 0) THEN Raised
    ELSE IF Blk(l, 0).previous_hash # Zeros64 THEN Verdict(FALSE, <<0>>)
    ELSE ValidateFrom(l, 2)

\* mutant: block 0 checked for its index alone
validate_blockchain_indexOnly(l) ==
    IF l = <<>> THEN Verdict(TRUE, <<>>)
    ELSE IF "index" \notin DOMAIN Blk(l, 0) THEN Raised
    ELSE IF Blk(l, 0).index # 0 THEN Verdict(FALSE, <<0>>)
    ELSE ValidateFrom(l, 1)

validate_blockchain(l) ==
    IF l = <<>> THEN Verdict(TRUE, <<>>)
    ELSE IF "index" \notin DOMAIN Blk(l, 0) THEN Raised
    ELSE IF Blk(l, 0).index # 0 THEN Verdict(FALSE, <<0>>)
    ELSE IF "previous_hash" \notin DOMAIN Blk(l, 0) THEN Raised
    ELSE IF Blk(l, 0).previous_hash # Zeros64 THEN Verdict(FALSE, <<0>>)
    ELSE ValidateFrom(l, 1)

-----------------------------------------------------------------------------
(* Inputs *)

Reqs == 1..NumReqs

\* what datetime.utcnow() can read: an instant before the genesis time, the
\* genesis time, and one ahead of both by more than the tolerance (the wall
\* clock is not monotonic: it can be set)
FarFuture == GenesisTime + Tolerance + 1
Instants == {GenesisTime - 1, GenesisTime, FarFuture}

\* uploaded files: empty, of exactly the size limit, and one byte over it
FileAtLimit == [i \in 1..FileSizeLimit |-> IF i % 2 = 1 THEN Chr("a") ELSE Chr("b")]
Files == {<<>>, FileAtLimit, FileAtLimit \o <<Chr("b")>>}

\* file.filename
Filenames == {Str(<<"f">>)}

\* the stored_hash form field: missing, or the digest of FileAtLimit as a
\* client sends it in upper case
StoredHashes == {EmptyStr, <<[SHA |-> FileAtLimit]>>}

-----------------------------------------------------------------------------
(* The audit log and the block factory *)

Idle == [pc |-> "idle", kind |-> "none", stored_hash |-> EmptyStr,
         file |-> <<>>, file_content |-> <<>>]

\* response is the HTTP answer sent by the step just taken, if it sent one
NoResponse == [code |-> 0]
Untampered == [kind |-> "none"]
\* call is the call of a function on its own that is under examination
NoCall == [fn |-> "none"]

Init ==
    \* lines 624-628: the log is seeded with the genesis block
    /\ log = <<create_genesis_block>>
    /\ reqs = [r \in Reqs |-> Idle]
    /\ response = NoResponse
    /\ tamper = Untampered
    /\ call = NoCall

InFlight == Cardinality({r \in Reqs : reqs[r].pc # "idle"})

\* mutant: the head of the list taken for its tail
TailBlock_first(l) == l[1]

\* BLOCKCHAIN_LOG[-1]
TailBlock(l) == l[Len(l)]

\* mutant: the fallback order reversed, the legacy "hash" field first
TailHash_hashFirst(l) ==
    IF l # <<>>
    THEN LET previous_block == TailBlock(l)
         IN  Get(previous_block, "hash",
                 Get(previous_block, "current_hash",
                     Get(previous_block, "block_hash", Zeros64)))
    ELSE Zeros64

\* lines 370-373 and 556-559: the previous hash a new block is given
TailHash(l) ==
    IF l # <<>>
    THEN LET previous_block == TailBlock(l)
         IN  Get(previous_block, "block_hash",
                 Get(previous_block, "hash",
                     Get(previous_block, "current_hash", Zeros64)))
    ELSE Zeros64

\* mutant: off by one
BlockIndex_offByOne(l) == Len(l) - 1

\* block_index = len(BLOCKCHAIN_LOG)
BlockIndex(l) == Len(l)

\* mutant: the tolerance left out of the comparison
TimestampRejected_noTolerance(timestamp, current_time) ==
    TimeOf(timestamp) > current_time

\* lines 379-382: the future-timestamp check, with current_time read after
\* the timestamp was generated
TimestampRejected(timestamp, current_time) ==
    TimeOf(timestamp) > current_time + Tolerance

\* mutant: the block hash computed before the result is filled in
HashBlock_hashBeforeResult(block_index, previous_hash, timestamp, filename, calculated_hash) ==
    LET new_block == [index |-> block_index, previous_hash |-> previous_hash,
                      timestamp |-> timestamp, operation |-> OpHash,
                      filename |-> filename, result |-> calculated_hash,
                      hash |-> calculated_hash]
    IN  SetKey(new_block, "block_hash",
               calculate_block_header_hash(DelKey(new_block, "result")))

\* lines 390-401
HashBlock(block_index, previous_hash, timestamp, filename, calculated_hash) ==
    LET new_block == [index |-> block_index, previous_hash |-> previous_hash,
                      timestamp |-> timestamp, operation |-> OpHash,
                      filename |-> filename, result |-> calculated_hash,
                      hash |-> calculated_hash]
    IN  SetKey(new_block, "block_hash", calculate_block_header_hash(new_block))

\* mutant: the header hash computed before result is set
VerificationBlock_hashBeforeResult(block_index, previous_hash, timestamp, filename, stored_hash, current_hash, status) ==
    LET new_block == [index |-> block_index, previous_hash |-> previous_hash,
                      timestamp |-> timestamp, operation |-> OpVerification,
                      filename |-> filename, stored_hash |-> stored_hash,
                      current_hash |-> current_hash, result |-> status]
    IN  SetKey(new_block, "block_hash",
               calculate_block_header_hash(DelKey(new_block, "result")))

\* lines 577-589
VerificationBlock(block_index, previous_hash, timestamp, filename, stored_hash, current_hash, status) ==
    LET new_block == [index |-> block_index, previous_hash |-> previous_hash,
                      timestamp |-> timestamp, operation |-> OpVerification,
                      filename |-> filename, stored_hash |-> stored_hash,
                      current_hash |-> current_hash, result |-> status]
    IN  SetKey(new_block, "block_hash", calculate_block_header_hash(new_block))

\* mutant: BLOCKCHAIN_LOG.insert(0, new_block)
LogAppend_front(l, new_block) == <<new_block>> \o l

\* mutant: the block appended before its block_hash is set
LogAppend_unhashed(l, new_block) == Append(l, DelKey(new_block, "block_hash"))

\* BLOCKCHAIN_LOG.append(new_block)
LogAppend(l, new_block) == Append(l, new_block)

\* raise HTTPException(status_code=code): the request ends, nothing else changes
Reject(r, kind, code) ==
    /\ reqs' = [reqs EXCEPT ![r] = Idle]
    /\ response' = [code |-> code, kind |-> kind]
    /\ UNCHANGED <<log, tamper, call>>

-----------------------------------------------------------------------------
(* POST /hash and POST /verify.  The handlers are coroutines on one event  *)
(* loop: another request can run only while one is suspended at an await   *)
(* (file.seek, file.read); the code between two awaits is one step.        *)

\* a /hash request arrives and runs to await file.seek(0)
HashStart(r, file) ==
    /\ reqs[r].pc = "idle"
    /\ Len(log) + InFlight < MaxLog
    /\ reqs' = [reqs EXCEPT ![r] = [Idle EXCEPT !.pc = "seek", !.kind = "hash",
                                                !.file = file]]
    /\ response' = NoResponse
    /\ UNCHANGED <<log, tamper, call>>

\* a /verify request arrives with a stored_hash and runs to await file.seek(0)
VerifyStart(r, file, stored_hash) ==
    /\ reqs[r].pc = "idle"
    /\ Len(log) + InFlight < MaxLog
    /\ stored_hash # EmptyStr
    /\ reqs' = [reqs EXCEPT ![r] = [Idle EXCEPT !.pc = "seek", !.kind = "verify",
                                                !.file = file,
                                                !.stored_hash = stored_hash]]
    /\ response' = NoResponse
    /\ UNCHANGED <<log, tamper, call>>

\* lines 514-518: a /verify request without stored_hash is answered 400
VerifyMissingParam(r, stored_hash) ==
    /\ reqs[r].pc = "idle"
    /\ stored_hash = EmptyStr
    /\ Reject(r, "verify", 400)

\* await file.seek(0) returns; the handler runs to the first await file.read
SeekDone(r) ==
    /\ reqs[r].pc = "seek"
    /\ reqs' = [reqs EXCEPT ![r].pc = "read"]
    /\ response' = NoResponse
    /\ UNCHANGED <<log, tamper, call>>

\* file.read(chunk_size) at the stream position the request has reached
NextChunk(q) ==
    LET pos == Len(q.file_content)
        end == IF pos + ChunkSize < Len(q.file) THEN pos + ChunkSize ELSE Len(q.file)
    IN  SubSeq(q.file, pos + 1, end)

\* await file.read returns a chunk within the size limit; the handler
\* extends file_content and runs to the next await file.read
ReadMore(r) ==
    /\ reqs[r].pc = "read"
    /\ NextChunk(reqs[r]) # <<>>
    /\ Len(reqs[r].file_content) + Len(NextChunk(reqs[r])) <= FileSizeLimit
    /\ reqs' = [reqs EXCEPT ![r].file_content = @ \o NextChunk(reqs[r])]
    /\ response' = NoResponse
    /\ UNCHANGED <<log, tamper, call>>

\* await file.read returns a chunk that takes total_size over the limit: 413
ReadTooLarge(r) ==
    /\ reqs[r].pc = "read"
    /\ NextChunk(reqs[r]) # <<>>
    /\ Len(reqs[r].file_content) + Len(NextChunk(reqs[r])) > FileSizeLimit
    /\ Reject(r, reqs[r].kind, 413)

\* await file.seek or await file.read raises (an I/O error): the handler's
\* except Exception answers 500
IoError(r) ==
    /\ reqs[r].pc \in {"seek", "read"}
    /\ Reject(r, reqs[r].kind, 500)

\* mutant: the block is appended before the future-timestamp check
HashFileTail_appendFirst(r, filename, t_stamp, t_check) ==
    /\ reqs[r].pc = "read" /\ reqs[r].kind = "hash"
    /\ NextChunk(reqs[r]) = <<>>
    /\ LET calculated_hash == calculate_file_hash(reqs[r].file_content)
           timestamp == IsoZ(t_stamp)
           block_index == BlockIndex(log)
           new_block == HashBlock(block_index, TailHash(log), timestamp,
                                  filename, calculated_hash)
       IN  /\ log' = LogAppend(log, new_block)
           /\ reqs' = [reqs EXCEPT ![r] = Idle]
           /\ response' = IF TimestampRejected(timestamp, t_check)
                          THEN [code |-> 400, kind |-> "hash"]
                          ELSE [code |-> 200, kind |-> "hash",
                                hash |-> calculated_hash,
                                block_hash |-> new_block.block_hash,
                                block_index |-> block_index,
                                timestamp |-> timestamp]
           /\ UNCHANGED <<tamper, call>>

\* await file.read returns b"": lines 367-414 run as one step.  timestamp
\* and current_time are two readings of the wall clock.
HashFileTail(r, filename, t_stamp, t_check) ==
    /\ reqs[r].pc = "read" /\ reqs[r].kind = "hash"
    /\ NextChunk(reqs[r]) = <<>>
    /\ LET calculated_hash == calculate_file_hash(reqs[r].file_content)
           previous_hash == TailHash(log)
           timestamp == IsoZ(t_stamp)
           block_index == BlockIndex(log)
           new_block == HashBlock(block_index, previous_hash, timestamp,
                                  filename, calculated_hash)
       IN  IF TimestampRejected(timestamp, t_check)
           THEN Reject(r, "hash", 400)
           ELSE /\ log' = LogAppend(log, new_block)
                /\ reqs' = [reqs EXCEPT ![r] = Idle]
                /\ response' = [code |-> 200, kind |-> "hash",
                                hash |-> calculated_hash,
                                block_hash |-> new_block.block_hash,
                                block_index |-> block_index,
                                timestamp |-> timestamp]
                /\ UNCHANGED <<tamper, call>>

\* mutant: the digests compared without .lower()
VerifyFileTail_caseSensitive(r, filename, t_stamp, t_check) ==
    /\ reqs[r].pc = "read" /\ reqs[r].kind = "verify"
    /\ NextChunk(reqs[r]) = <<>>
    /\ LET current_hash == calculate_file_hash(reqs[r].file_content)
           stored_hash == reqs[r].stored_hash
           is_valid == current_hash = stored_hash
           status == IF is_valid THEN StatusValid ELSE StatusInvalid
           previous_hash == TailHash(log)
           timestamp == IsoZ(t_stamp)
           block_index == BlockIndex(log)
           new_block == VerificationBlock(block_index, previous_hash, timestamp,
                                          filename, stored_hash, current_hash,
                                          status)
       IN  IF TimestampRejected(timestamp, t_check)
           THEN Reject(r, "verify", 400)
           ELSE /\ log' = LogAppend(log, new_block)
                /\ reqs' = [reqs EXCEPT ![r] = Idle]
                /\ response' = [code |-> 200, kind |-> "verify",
                                status |-> status,
                                current_hash |-> current_hash,
                                stored_hash |-> stored_hash,
                                block_hash |-> new_block.block_hash,
                                block_index |-> block_index,
                                timestamp |-> timestamp]
                /\ UNCHANGED <<tamper, call>>

\* await file.read returns b"": lines 547-604 run as one step
VerifyFileTail(r, filename, t_stamp, t_check) ==
    /\ reqs[r].pc = "read" /\ reqs[r].kind = "verify"
    /\ NextChunk(reqs[r]) = <<>>
    /\ LET current_hash == calculate_file_hash(reqs[r].file_content)
           stored_hash == reqs[r].stored_hash
           is_valid == Lower(current_hash) = Lower(stored_hash)
           status == IF is_valid THEN StatusValid ELSE StatusInvalid
           previous_hash == TailHash(log)
           timestamp == IsoZ(t_stamp)
           block_index == BlockIndex(log)
           new_block == VerificationBlock(block_index, previous_hash, timestamp,
                                          filename, stored_hash, current_hash,
                                          status)
       IN  IF TimestampRejected(timestamp, t_check)
           THEN Reject(r, "verify", 400)
           ELSE /\ log' = LogAppend(log, new_block)
                /\ reqs' = [reqs EXCEPT ![r] = Idle]
                /\ response' = [code |-> 200, kind |-> "verify",
                                status |-> status,
                                current_hash |-> current_hash,
                                stored_hash |-> stored_hash,
                                block_hash |-> new_block.block_hash,
                                block_index |-> block_index,
                                timestamp |-> timestamp]
                /\ UNCHANGED <<tamper, call>>

-----------------------------------------------------------------------------
(* The read-only endpoints.  None of them awaits: each is one step.  An    *)
(* exception that escapes a handler is answered 500 by the framework.      *)

RECURSIVE InsertDesc(_, _)
\* the place a stable descending sort by index gives to block b
InsertDesc(sorted, b) ==
    IF sorted = <<>> THEN <<b>>
    ELSE IF Head(sorted).index >= b.index
         THEN <<Head(sorted)>> \o InsertDesc(Tail(sorted), b)
         ELSE <<b>> \o sorted

RECURSIVE SortDescFrom(_, _, _)
SortDescFrom(l, k, sorted) ==
    IF k > Len(l) THEN sorted ELSE SortDescFrom(l, k + 1, InsertDesc(sorted, l[k]))

\* mutant: the sort without reverse=True
SortByIndexDesc_ascending(l) ==
    [j \in 1..Len(l) |-> SortDescFrom(l, 1, <<>>)[Len(l) + 1 - j]]

\* list.sort(key=lambda x: x["index"], reverse=True)
SortByIndexDesc(l) == SortDescFrom(l, 1, <<>>)

\* mutant: the validator drops the blocks from the first invalid one on
ValidateChain_truncating ==
    /\ LET v == validate_blockchain(log)
       IN  /\ response' = IF v.raised THEN [code |-> 500, kind |-> "validate-chain"]
                           ELSE [code |-> 200, kind |-> "validate-chain",
                                 valid |-> v.valid, invalid_block |-> v.invalid]
           /\ log' = IF ~v.raised /\ ~v.valid THEN SubSeq(log, 1, v.invalid[1])
                      ELSE log
    /\ UNCHANGED <<reqs, tamper, call>>

\* GET /validate-chain
ValidateChain ==
    /\ LET v == validate_blockchain(log)
       IN  response' = IF v.raised THEN [code |-> 500, kind |-> "validate-chain"]
                       ELSE [code |-> 200, kind |-> "validate-chain",
                             valid |-> v.valid, invalid_block |-> v.invalid]
    /\ UNCHANGED <<log, reqs, tamper, call>>

\* GET /health (the timestamp, port, version and config entries of the
\* answer are not modelled)
HealthAnswer(l) ==
    LET v == validate_blockchain(l)
    IN  IF v.raised THEN [code |-> 500, kind |-> "health"]
        ELSE [code |-> 200, kind |-> "health",
              status |-> IF v.valid THEN "healthy" ELSE "degraded",
              valid |-> v.valid, block_count |-> Len(l)]

Health ==
    /\ response' = HealthAnswer(log)
    /\ UNCHANGED <<log, reqs, tamper, call>>

\* mutant: copy.copy, a new list of the same dicts
deepcopy_shallow(l) == [shares |-> "dicts", blocks |-> l]

\* copy.deepcopy(BLOCKCHAIN_LOG): a new list of new dicts.  The value says
\* which objects the result shares with the list copied: "nothing", its
\* "dicts", or the "list" itself.
deepcopy(l) == [shares |-> "nothing", blocks |-> l]

\* GET /blockchain-log.  sort() is in place: it reorders the log when
\* blockchain_copy is the log's own list.
GetBlockchainLog ==
    /\ LET v == validate_blockchain(log)
           blockchain_copy == deepcopy(log)
           sorted == SortByIndexDesc(blockchain_copy.blocks)
       IN  IF (\E i \in 1..Len(log) : "index" \notin DOMAIN log[i]) \/ v.raised
           THEN /\ response' = [code |-> 500, kind |-> "blockchain-log"]
                /\ log' = log
           ELSE /\ response' =
                      [code |-> 200, kind |-> "blockchain-log",
                       block_count |-> Len(sorted),
                       chain_validity_status |-> IF v.valid THEN "valid" ELSE "invalid",
                       blocks |-> sorted, shares |-> blockchain_copy.shares]
                /\ log' = IF blockchain_copy.shares = "list" THEN sorted ELSE log
    /\ UNCHANGED <<reqs, tamper, call>>

-----------------------------------------------------------------------------
(* The service *)

\* the steps of POST /hash and POST /verify
Service ==
    \/ \E r \in Reqs, file \in Files : HashStart(r, file)
    \/ \E r \in Reqs, file \in Files, stored_hash \in StoredHashes :
          VerifyStart(r, file, stored_hash)
    \/ \E r \in Reqs, stored_hash \in StoredHashes : VerifyMissingParam(r, stored_hash)
    \/ \E r \in Reqs : SeekDone(r)
    \/ \E r \in Reqs : ReadMore(r)
    \/ \E r \in Reqs : ReadTooLarge(r)
    \/ \E r \in Reqs : IoError(r)
    \/ \E r \in Reqs, filename \in Filenames, t_stamp \in Instants, t_check \in Instants :
          HashFileTail(r, filename, t_stamp, t_check)
    \/ \E r \in Reqs, filename \in Filenames, t_stamp \in Instants, t_check \in Instants :
          VerifyFileTail(r, filename, t_stamp, t_check)

\* the GET endpoints
ReadOnly ==
    \/ ValidateChain
    \/ Health
    \/ GetBlockchainLog

Next == Service \/ ReadOnly

Spec == Init /\ [][Next]_vars

-----------------------------------------------------------------------------
(* Tampering.  BLOCKCHAIN_LOG is a module-level list of dicts: code outside *)
(* the handlers can rewrite a stored block in place.  One change is made    *)
(* to one block of a log the service has built one request at a time,      *)
(* while no request is in flight; the service is not run on afterwards.     *)

BlockKeys == {"index", "previous_hash", "timestamp", "operation", "filename",
              "result", "block_hash", "hash", "stored_hash", "current_hash"}

\* the values a tampered field is given
TamperValues(key) ==
    CASE key = "index" -> {0, MaxLog}
      [] key = "previous_hash" -> {Zeros64, EmptyDigest, Sha256Hex(FileAtLimit), NoneVal}
      [] key = "timestamp" -> {IsoZ(t) : t \in Instants} \cup {NoneVal, Str(<<"x">>)}
      [] key = "operation" -> {OpHash, OpVerification}
      [] key = "filename" -> {NoneVal, EmptyStr}
      [] key = "result" -> {StatusValid, EmptyDigest}
      [] key = "block_hash" -> {EmptyStr, EmptyDigest}
      [] OTHER -> {EmptyDigest}

AllIdle == \A r \in Reqs : reqs[r].pc = "idle"

\* BLOCKCHAIN_LOG[i][key] = value, for a key the block has
SetField(i, key, value) ==
    /\ tamper = Untampered /\ AllIdle
    /\ i \in 0..(Len(log) - 1)
    /\ key \in DOMAIN Blk(log, i)
    /\ value # Blk(log, i)[key]
    /\ log' = [log EXCEPT ![i + 1] = SetKey(@, key, value)]
    /\ tamper' = [kind |-> "set", pos |-> i, key |-> key, before |-> log]
    /\ response' = NoResponse
    /\ UNCHANGED <<reqs, call>>

\* del BLOCKCHAIN_LOG[i][key]
DelField(i, key) ==
    /\ tamper = Untampered /\ AllIdle
    /\ i \in 0..(Len(log) - 1)
    /\ key \in DOMAIN Blk(log, i)
    /\ log' = [log EXCEPT ![i + 1] = DelKey(@, key)]
    /\ tamper' = [kind |-> "del", pos |-> i, key |-> key, before |-> log]
    /\ response' = NoResponse
    /\ UNCHANGED <<reqs, call>>

\* BLOCKCHAIN_LOG[i], BLOCKCHAIN_LOG[j] = BLOCKCHAIN_LOG[j], BLOCKCHAIN_LOG[i]
SwapBlocks(i, j) ==
    /\ tamper = Untampered /\ AllIdle
    /\ i < j
    /\ j \in 0..(Len(log) - 1)
    /\ log' = [log EXCEPT ![i + 1] = Blk(log, j), ![j + 1] = Blk(log, i)]
    /\ tamper' = [kind |-> "swap", pos |-> i, key |-> "", before |-> log]
    /\ response' = NoResponse
    /\ UNCHANGED <<reqs, call>>

InFlightAfter == Cardinality({r \in Reqs : reqs'[r].pc # "idle"})

NextTamper ==
    \/ tamper = Untampered /\ Next /\ InFlightAfter <= 1
    \/ \E i \in 0..(MaxLog - 1), key \in BlockKeys :
          \E value \in TamperValues(key) : SetField(i, key, value)
    \/ \E i \in 0..(MaxLog - 1), key \in BlockKeys : DelField(i, key)
    \/ \E i \in 0..(MaxLog - 1), j \in 0..(MaxLog - 1) : SwapBlocks(i, j)

SpecTamper == Init /\ [][NextTamper]_vars

-----------------------------------------------------------------------------
(* The caller of get_blockchain_log.  The "blocks" of the answer is a list  *)
(* of dicts the caller holds and can change; a change reaches the log       *)
(* through every object the answer shares with it.  The caller acts while   *)
(* no request is in flight, and makes one change to an answer.              *)

\* the answer of GET /blockchain-log is in the caller's hands
Returned == response.code = 200 /\ response.kind = "blockchain-log"

\* the caller has not changed the answer yet
Untouched == response.blocks = SortByIndexDesc(log)

\* the values the caller writes into a returned block
CallerValues(key) == IF key = "index" THEN {MaxLog} ELSE {EmptyDigest}

\* blocks[j][key] = value on the returned list (j counts from 0)
ReturnedSetField(j, key, value) ==
    /\ Returned /\ AllIdle /\ Untouched
    /\ j \in 0..(Len(response.blocks) - 1)
    /\ key \in DOMAIN Blk(response.blocks, j)
    /\ value # Blk(response.blocks, j)[key]
    /\ response' = [response EXCEPT !.blocks[j + 1] = SetKey(@, key, value)]
    /\ log' = IF response.shares \in {"dicts", "list"}
               THEN [k \in 1..Len(log) |->
                        IF log[k] = Blk(response.blocks, j)
                        THEN SetKey(log[k], key, value) ELSE log[k]]
               ELSE log
    /\ UNCHANGED <<reqs, tamper, call>>

\* blocks.sort(key=lambda x: x["index"]) on the returned list: newest last
ReturnedSort ==
    /\ Returned /\ AllIdle /\ Untouched
    /\ \A j \in 1..Len(response.blocks) : "index" \in DOMAIN response.blocks[j]
    /\ response' = [response EXCEPT
                        !.blocks = [j \in 1..Len(@) |->
                                       SortByIndexDesc(@)[Len(@) + 1 - j]]]
    /\ log' = IF response.shares = "list" THEN response'.blocks ELSE log
    /\ UNCHANGED <<reqs, tamper, call>>

NextCaller ==
    \/ tamper = Untampered /\ Next /\ InFlightAfter <= 1
    \/ \E j \in 0..(MaxLog - 1), key \in {"index", "result"} :
          \E value \in CallerValues(key) : ReturnedSetField(j, key, value)
    \/ ReturnedSort

SpecCaller == Init /\ [][NextCaller]_vars

-----------------------------------------------------------------------------
(* The digest engine and the block hasher on their own: a call is drawn    *)
(* with its arguments and then made.                                       *)

\* the byte strings of at most MaxBytes bytes over two byte values
ByteStrings ==
    UNION {[1..k -> {Chr("a"), Chr("b")}] : k \in 0..MaxBytes}

\* block dicts given to the block hasher: with every header field drawn
\* from two or more values, a filename that is None, the string "None",
\* empty or a name, and fields whose strings run into each other
HasherBlocks ==
    [index : {1, 11},
     previous_hash : {Str(<<"1">>), Str(<<"1", "1">>)},
     timestamp : {IsoZ(GenesisTime), IsoZ(FarFuture)},
     operation : {OpHash, OpHash \o Str(<<"f">>)},
     filename : {NoneVal, NoneStr, EmptyStr, Str(<<"f">>)},
     result : {EmptyStr, Str(<<"f">>)}]

FileHashCalls ==
    {[fn |-> "calculate_file_hash", done |-> FALSE, file_bytes |-> b] :
        b \in ByteStrings}

HeaderHashCalls ==
    {[fn |-> "calculate_block_header_hash", done |-> FALSE, block |-> b,
      other |-> c] : b \in HasherBlocks, c \in HasherBlocks}

InitPure ==
    /\ log = <<create_genesis_block>>
    /\ reqs = [r \in Reqs |-> Idle]
    /\ response = NoResponse
    /\ tamper = Untampered
    /\ call \in FileHashCalls \cup HeaderHashCalls

\* calculate_file_hash(file_bytes)
CallFileHash ==
    /\ call.fn = "calculate_file_hash" /\ ~call.done
    /\ call' = [fn |-> call.fn, done |-> TRUE, file_bytes |-> call.file_bytes,
                result |-> calculate_file_hash(call.file_bytes)]
    /\ UNCHANGED <<log, reqs, response, tamper>>

\* calculate_block_header_hash(block) and calculate_block_header_hash(other)
CallHeaderHash ==
    /\ call.fn = "calculate_block_header_hash" /\ ~call.done
    /\ call' = [fn |-> call.fn, done |-> TRUE, block |-> call.block,
                other |-> call.other,
                result |-> calculate_block_header_hash(call.block),
                other_result |-> calculate_block_header_hash(call.other)]
    /\ UNCHANGED <<log, reqs, response, tamper>>

NextPure == CallFileHash \/ CallHeaderHash

SpecPure == InitPure /\ [][NextPure]_vars

-----------------------------------------------------------------------------
(* validate_blockchain on its own, on logs of every block shape *)

\* the longest log validate_blockchain is called on
MaxShaped == 2

\* the values of the legacy fields "hash" and "current_hash", and the value
\* an extra field is changed to
LegacyHash == EmptyDigest
LegacyCurrentHash == Sha256Hex(FileAtLimit)
ChangedValue == Zeros64

\* the hash fields a block carries: block_hash absent, empty, the header
\* hash of the block's fields ("fresh") or another digest ("stale"), with or
\* without the legacy fields "hash" and "current_hash"
HashShapes ==
    {s \in [block_hash : {"absent", "empty", "fresh", "stale"},
            hash : BOOLEAN, current_hash : BOOLEAN] :
        s.current_hash => s.block_hash = "absent"}

\* the six header fields of a block
ShapedFields(index, previous_hash, timestamp) ==
    [index |-> index, previous_hash |-> previous_hash, timestamp |-> timestamp,
     operation |-> OpHash, filename |-> Str(<<"f">>), result |-> EmptyDigest]

\* the block of these header fields with the hash fields of shape s
WithHashes(fields, s) ==
    LET hashed == CASE s.block_hash = "absent" -> fields
                    [] s.block_hash = "empty" -> SetKey(fields, "block_hash", EmptyStr)
                    [] s.block_hash = "fresh" ->
                          SetKey(fields, "block_hash", calculate_block_header_hash(fields))
                    [] OTHER -> SetKey(fields, "block_hash", LegacyHash)
        legacy == IF s.hash THEN SetKey(hashed, "hash", LegacyHash) ELSE hashed
    IN  IF s.current_hash THEN SetKey(legacy, "current_hash", LegacyCurrentHash)
        ELSE legacy

\* index and previous_hash of the block at position 0: a genesis block's,
\* a wrong index, a wrong previous_hash
GenesisHeads ==
    {[index |-> 0, previous_hash |-> Zeros64],
     [index |-> 1, previous_hash |-> Zeros64],
     [index |-> 0, previous_hash |-> EmptyDigest]}

\* the previous_hash of a block after previous_block: its header hash, the
\* value of either legacy field, or None
LinkValues(previous_block) ==
    {calculate_block_header_hash(previous_block), LegacyHash, LegacyCurrentHash,
     NoneVal}

\* the blocks at position 0
ShapedGenesis ==
    {WithHashes(ShapedFields(h.index, h.previous_hash, IsoZ(GenesisTime)), s) :
        h \in GenesisHeads, s \in HashShapes}

InitValidator ==
    /\ log \in {<<b>> : b \in ShapedGenesis}
    /\ reqs = [r \in Reqs |-> Idle]
    /\ response = NoResponse
    /\ tamper = Untampered
    /\ call = [fn |-> "validate_blockchain", done |-> FALSE]

\* the log validate_blockchain is to be called on is given one more block,
\* with previous_hash p, timestamp t and hash fields of shape s
AppendShaped(p, t, s) ==
    /\ call.fn = "validate_blockchain" /\ ~call.done
    /\ "before" \notin DOMAIN call
    /\ Len(log) < MaxShaped
    /\ log' = Append(log, WithHashes(ShapedFields(Len(log), p, IsoZ(t)), s))
    /\ UNCHANGED <<reqs, response, tamper, call>>

\* validate_blockchain()
CallValidate ==
    /\ call.fn = "validate_blockchain" /\ ~call.done
    /\ call' = SetKey(SetKey(call, "done", TRUE), "verdict", validate_blockchain(log))
    /\ UNCHANGED <<log, reqs, response, tamper>>

\* BLOCKCHAIN_LOG[i][key] = ChangedValue for one of the fields that /hash and
\* /verify store next to the header fields, once, between two validations
ChangeExtraField(i, key) ==
    /\ call.fn = "validate_blockchain" /\ call.done
    /\ "before" \notin DOMAIN call
    /\ log' = [log EXCEPT ![i + 1] = SetKey(@, key, ChangedValue)]
    /\ call' = [fn |-> call.fn, done |-> FALSE, before |-> call.verdict,
                pos |-> i, key |-> key]
    /\ UNCHANGED <<reqs, response, tamper>>

NextValidator ==
    \/ CallValidate
    \/ \E p \in LinkValues(TailBlock(log)), t \in {GenesisTime - 1, GenesisTime},
          s \in HashShapes :
          AppendShaped(p, t, s)

SpecValidator == InitValidator /\ [][NextValidator]_vars

\* the blocks that carry block_hash
Hashed(b) == "block_hash" \in DOMAIN b

InitExtraFields ==
    /\ log \in {<<b>> : b \in {g \in ShapedGenesis : Hashed(g)}}
    /\ reqs = [r \in Reqs |-> Idle]
    /\ response = NoResponse
    /\ tamper = Untampered
    /\ call = [fn |-> "validate_blockchain", done |-> FALSE]

NextExtraFields ==
    \/ CallValidate
    \/ \E p \in LinkValues(TailBlock(log)), t \in {GenesisTime - 1, GenesisTime},
          s \in {h \in HashShapes : h.block_hash # "absent"} :
          AppendShaped(p, t, s)
    \/ \E i \in 0..(Len(log) - 1), key \in {"hash", "stored_hash", "current_hash"} :
          ChangeExtraField(i, key)

SpecExtraFields == InitExtraFields /\ [][NextExtraFields]_vars

-----------------------------------------------------------------------------
(* The service watched by health_check.py *)

\* mutant: success whenever the endpoint answered 200
check_health_anyAnswer(port_open, sent, answer) ==
    port_open /\ sent /\ answer.code = 200

\* check_health of health_check.py, its second result: the port is open,
\* requests.get returned (sent), raise_for_status passed and the answer's
\* blockchain.valid is true
check_health(port_open, sent, answer) ==
    IF ~port_open THEN FALSE
    ELSE IF ~sent THEN FALSE
    ELSE IF answer.code # 200 THEN FALSE
    ELSE IF ~Get(answer, "valid", FALSE) THEN FALSE
    ELSE TRUE

\* one run of health_check.py: GET /health reaches the service when the port
\* is open and the request gets through, result['blockchain_valid'] is
\* taken from the answer, and the script exits with 0 or 1
RunHealthCheck(port_open, sent) ==
    /\ response' = IF port_open /\ sent THEN HealthAnswer(log) ELSE NoResponse
    /\ call' = [fn |-> "health_check", answered |-> port_open /\ sent,
                blockchain_valid |-> Get(response', "valid", FALSE),
                exit |-> IF check_health(port_open, sent, response') THEN 0 ELSE 1]
    /\ UNCHANGED <<log, reqs, tamper>>

NextMonitor ==
    \/ tamper = Untampered /\ Next /\ InFlightAfter <= 1
    \/ \E port_open \in BOOLEAN, sent \in BOOLEAN : RunHealthCheck(port_open, sent)

SpecMonitor == Init /\ [][NextMonitor]_vars

-----------------------------------------------------------------------------
(* The service under a wall clock that is never set back *)

\* two successive readings of a clock that never moves backward and never
\* reads earlier than the genesis time: the first is not earlier than the
\* reading the tail of the log was stamped with, nor the second than the
\* first
MonotonicReads(t_stamp, t_check) ==
    /\ t_stamp >= GenesisTime
    /\ t_stamp >= TimeOf(TailBlock(log).timestamp)
    /\ t_check >= t_stamp

NextMonotonic ==
    \/ \E r \in Reqs, file \in Files : HashStart(r, file)
    \/ \E r \in Reqs, file \in Files, stored_hash \in StoredHashes :
          VerifyStart(r, file, stored_hash)
    \/ \E r \in Reqs, stored_hash \in StoredHashes : VerifyMissingParam(r, stored_hash)
    \/ \E r \in Reqs : SeekDone(r)
    \/ \E r \in Reqs : ReadMore(r)
    \/ \E r \in Reqs : ReadTooLarge(r)
    \/ \E r \in Reqs : IoError(r)
    \/ \E r \in Reqs, filename \in Filenames, t_stamp \in Instants, t_check \in Instants :
          MonotonicReads(t_stamp, t_check) /\ HashFileTail(r, filename, t_stamp, t_check)
    \/ \E r \in Reqs, filename \in Filenames, t_stamp \in Instants, t_check \in Instants :
          MonotonicReads(t_stamp, t_check) /\ VerifyFileTail(r, filename, t_stamp, t_check)
    \/ ReadOnly

SpecMonotonic == Init /\ [][NextMonotonic]_vars

-----------------------------------------------------------------------------
(* The service started on a log whose tail is a block of any shape *)

\* a genesis block with hash fields of every shape
LegacyTails == {g \in ShapedGenesis : g.index = 0 /\ g.previous_hash = Zeros64}

InitLegacy ==
    /\ log \in {<<g>> : g \in LegacyTails}
    /\ reqs = [r \in Reqs |-> Idle]
    /\ response = NoResponse
    /\ tamper = Untampered
    /\ call = NoCall

NextLegacy == tamper = Untampered /\ Next /\ InFlightAfter <= 1

SpecLegacy == InitLegacy /\ [][NextLegacy]_vars

-----------------------------------------------------------------------------
(* Properties *)

\* the step just taken answered a /hash or /verify request with success
Appended(resp) == resp.code = 200 /\ resp.kind \in {"hash", "verify"}

\* the step just taken answered a /hash or /verify request with an error
Failed(resp) == resp.code \in {400, 413, 500} /\ resp.kind \in {"hash", "verify"}

IsPrefix(s, t) == Len(s) <= Len(t) /\ SubSeq(t, 1, Len(s)) = s

Min(S) == CHOOSE x \in S : \A y \in S : x <= y

HasOperation(l, op) == \E i \in 1..Len(l) : l[i].operation = op

\* C1: block 0 has previous_hash "0" * 64, and every later block's
\* previous_hash is the block_hash stored in the block before it.
C1_LinkInvariant ==
    /\ Blk(log, 0).previous_hash = Zeros64
    /\ \A i \in 1..(Len(log) - 1) :
          Blk(log, i).previous_hash = Blk(log, i - 1).block_hash

\* a log with a HASH block followed by a VERIFICATION block
C1_Witness ==
    /\ Len(log) >= 3
    /\ Blk(log, 1).operation = OpHash
    /\ Blk(log, 2).operation = OpVerification

\* C2: the block at position i has index i, so each appended block's index
\* is its predecessor's plus one, and the block_index a /hash or /verify
\* caller is given is the position where the caller's block is stored.
C2_IndexDensity ==
    /\ \A i \in 0..(Len(log) - 1) : Blk(log, i).index = i
    /\ \A i \in 1..(Len(log) - 1) : Blk(log, i).index = Blk(log, i - 1).index + 1
    /\ Appended(response) =>
          /\ response.block_index = Len(log) - 1
          /\ Blk(log, response.block_index).block_hash = response.block_hash
          /\ Blk(log, response.block_index).timestamp = response.timestamp

\* a /verify caller was just given block_index 2
C2_Witness ==
    /\ Appended(response)
    /\ response.kind = "verify"
    /\ response.block_index = 2

\* C3: whatever the interleaving of the requests, no two blocks of the log
\* carry the same index or the same previous_hash.
C3_AppendsSerialized ==
    \A i \in 1..Len(log) : \A j \in (i + 1)..Len(log) :
        /\ log[i].index # log[j].index
        /\ log[i].previous_hash # log[j].previous_hash

\* one request has just appended its block while another, which has
\* already read part of its file, is suspended at an await
C3_Witness ==
    /\ Appended(response)
    /\ Len(log) >= 2
    /\ \E r \in Reqs : reqs[r].pc = "read" /\ reqs[r].file_content # <<>>

\* C4: no step of any endpoint removes, reorders or changes a stored block;
\* the log before a step is a prefix of the log after it, and a successful
\* /hash or /verify adds exactly one block at the end.
C4_AppendOnly ==
    [][/\ IsPrefix(log, log')
       /\ Len(log') <= Len(log) + 1
       /\ Appended(response') => Len(log') = Len(log) + 1]_vars

\* GET /blockchain-log was just answered on a log of three blocks
C4_Witness ==
    /\ Len(log) >= 3
    /\ response.code = 200
    /\ response.kind = "blockchain-log"

\* C5: for every block of the log, the header hash recomputed from the
\* block's fields is the stored block_hash.
C5_HeaderHashRoundTrip ==
    \A i \in 1..Len(log) :
        /\ ~HeaderRaises(log[i])
        /\ calculate_block_header_hash(log[i]) = log[i].block_hash

\* a log holding a GENESIS, a HASH and a VERIFICATION block
C5_Witness ==
    /\ HasOperation(log, OpGenesis)
    /\ HasOperation(log, OpHash)
    /\ HasOperation(log, OpVerification)

\* C6: the timestamps of the log never decrease from one block to the next.
C6_TimestampsNonDecreasing ==
    \A i \in 1..(Len(log) - 1) :
        TimeOf(Blk(log, i).timestamp) >= TimeOf(Blk(log, i - 1).timestamp)

\* C7: a /hash or /verify request that ends in an error leaves the log as
\* it was, and the log changes only by the append of a block that carries
\* its block_hash, in the step that answers 200.
C7_NoAppendOnFailure ==
    [][/\ Failed(response') => log' = log
       /\ log' # log =>
             /\ Appended(response')
             /\ Len(log') = Len(log) + 1
             /\ "block_hash" \in DOMAIN TailBlock(log')
             /\ TailBlock(log').block_hash =
                    calculate_block_header_hash(TailBlock(log'))]_vars

\* a /hash request was just rejected by the future-timestamp check, on a
\* log that holds appended blocks
C7_Witness ==
    /\ response.code = 400
    /\ response.kind = "hash"
    /\ Len(log) >= 2

\* C8: validate_blockchain returns a verdict for every content of the log,
\* tampered logs included; it never raises.
C8_ValidatorTotal == ~validate_blockchain(log).raised

\* C9: in a log the validator accepted, replacing the previous_hash of the
\* block at position i by another value makes the verdict (False, i).
C9_TamperedLinkLocated ==
    (/\ tamper.kind = "set"
     /\ tamper.key = "previous_hash"
     /\ validate_blockchain(tamper.before) = Verdict(TRUE, <<>>))
    => validate_blockchain(log) = Verdict(FALSE, <<tamper.pos>>)

\* the previous_hash of the block at position 2 of a valid log was replaced
C9_Witness ==
    /\ tamper.kind = "set"
    /\ tamper.key = "previous_hash"
    /\ tamper.pos = 2
    /\ validate_blockchain(tamper.before) = Verdict(TRUE, <<>>)

\* block 0 is a genesis block, every previous_hash is the block_hash of the
\* block before, and every block_hash is the recomputed header hash
LinksIntact(l) ==
    /\ l # <<>>
    /\ \A i \in 1..Len(l) :
          /\ {"index", "previous_hash", "timestamp", "block_hash"} \subseteq DOMAIN l[i]
          /\ ~TimeRaises(l[i].timestamp)
    /\ Blk(l, 0).index = 0
    /\ Blk(l, 0).previous_hash = Zeros64
    /\ \A i \in 1..(Len(l) - 1) : Blk(l, i).previous_hash = Blk(l, i - 1).block_hash
    /\ \A i \in 1..Len(l) : l[i].block_hash = calculate_block_header_hash(l[i])

\* the positions whose timestamp is earlier than the one before
Regressions(l) ==
    {i \in 1..(Len(l) - 1) :
        TimeOf(Blk(l, i).timestamp) < TimeOf(Blk(l, i - 1).timestamp)}

\* C10: for a log whose hash links are intact, if i is the first position
\* whose timestamp is earlier than its predecessor's, the verdict is
\* (False, i).
C10_TimestampRegressionLocated ==
    (LinksIntact(log) /\ Regressions(log) # {})
    => validate_blockchain(log) = Verdict(FALSE, <<Min(Regressions(log))>>)

\* a log of three blocks with intact links whose only regression is at 2
C10_Witness ==
    /\ Len(log) = 3
    /\ LinksIntact(log)
    /\ Regressions(log) = {2}

\* the six fields the header hash is computed over
HeaderFields == {"index", "previous_hash", "timestamp", "operation", "filename",
                 "result"}

\* C11: in a log the service has built, giving one header field of one
\* block, at any position, another value makes validate_blockchain return
\* valid = False.
C11_TamperDetected ==
    (tamper.kind = "set" /\ tamper.key \in HeaderFields)
    => LET v == validate_blockchain(log) IN ~v.raised /\ ~v.valid

\* C12: in a log the service has built, exchanging the blocks at two
\* positions makes validate_blockchain return valid = False.
C12_ReorderingDetected ==
    tamper.kind = "swap"
    => LET v == validate_blockchain(log) IN ~v.raised /\ ~v.valid

\* the blocks at positions 1 and 2 of a log the validator accepted were
\* exchanged
C12_Witness ==
    /\ tamper.kind = "swap"
    /\ tamper.pos = 1
    /\ validate_blockchain(tamper.before) = Verdict(TRUE, <<>>)

\* a check at position i of l fails: it is not passed, be it that its
\* comparison fails or that the fields it compares are not there to compare
GenesisCheckFails(l) ==
    ~(/\ {"index", "previous_hash"} \subseteq DOMAIN Blk(l, 0)
      /\ Blk(l, 0).index = 0
      /\ Blk(l, 0).previous_hash = Zeros64)

LinkCheckFails(l, i) ==
    ~(/\ "previous_hash" \in DOMAIN Blk(l, i)
      /\ Blk(l, i).previous_hash = ResolvePrev(Blk(l, i - 1)))

HeaderHashCheckFails(l, i) ==
    /\ "block_hash" \in DOMAIN Blk(l, i)
    /\ ~(/\ {"index", "previous_hash", "timestamp"} \subseteq DOMAIN Blk(l, i)
          /\ Blk(l, i).block_hash =
                Sha256Hex(IntStr(Blk(l, i).index) \o Fmt(Blk(l, i).previous_hash)
                          \o Fmt(Blk(l, i).timestamp)
                          \o Fmt(Get(Blk(l, i), "operation", EmptyStr))
                          \o Fmt(Get(Blk(l, i), "filename", EmptyStr))
                          \o Fmt(Get(Blk(l, i), "result", EmptyStr))))

TimestampCheckFails(l, i) ==
    ~(/\ "timestamp" \in DOMAIN Blk(l, i)
      /\ "timestamp" \in DOMAIN Blk(l, i - 1)
      /\ ~TimeRaises(Blk(l, i).timestamp)
      /\ ~TimeRaises(Blk(l, i - 1).timestamp)
      /\ TimeOf(Blk(l, i).timestamp) >= TimeOf(Blk(l, i - 1).timestamp))

\* the positions of l at which some check fails
FailingPositions(l) ==
    {i \in 0..(Len(l) - 1) :
        IF i = 0 THEN GenesisCheckFails(l)
        ELSE LinkCheckFails(l, i) \/ HeaderHashCheckFails(l, i)
                \/ TimestampCheckFails(l, i)}

FirstFailureVerdict(l) ==
    IF FailingPositions(l) = {} THEN Verdict(TRUE, <<>>)
    ELSE Verdict(FALSE, <<Min(FailingPositions(l))>>)

\* C13: validate_blockchain returns (True, None) when no check fails and
\* (False, k) otherwise, k being the first position at which a check fails.
C13_FirstFailureVerdict ==
    validate_blockchain(log) = FirstFailureVerdict(log)

\* C14: at process start the log holds one block, and for as long as it
\* holds one block that block is the genesis block (index 0, previous_hash
\* "0" * 64, operation GENESIS, block_hash the header hash of its fields)
\* and validate_blockchain returns (True, None).
C14_InitialState ==
    /\ (AllIdle /\ response = NoResponse) => Len(log) = 1
    /\ Len(log) >= 1
    /\ Len(log) = 1 =>
          /\ Blk(log, 0).index = 0
          /\ Blk(log, 0).previous_hash = Zeros64
          /\ Blk(log, 0).operation = OpGenesis
          /\ Blk(log, 0).block_hash = calculate_block_header_hash(Blk(log, 0))
          /\ validate_blockchain(log) = Verdict(TRUE, <<>>)

\* GET /validate-chain was just answered on the log of one block
C14_Witness ==
    /\ Len(log) = 1
    /\ response.code = 200
    /\ response.kind = "validate-chain"
    /\ response.valid

\* the step just taken answered GET /validate-chain or GET /health
Validated(resp) == resp.code # 0 /\ resp.kind \in {"validate-chain", "health"}

\* C16: a step that answers /validate-chain or /health leaves the log as
\* it was, whatever the verdict.
C16_ValidationPureRead ==
    [][Validated(response') => log' = log]_vars

\* /validate-chain was just answered (False, 2) on a log of three blocks
C16_Witness ==
    /\ Len(log) = 3
    /\ response.code = 200
    /\ response.kind = "validate-chain"
    /\ ~response.valid
    /\ response.invalid_block = <<2>>

\* C17: in every state a validation can run in, requests in flight or not,
\* each block of the log has all its header fields and its block_hash, and
\* the verdict a validation has just given is the verdict of the log as it
\* stands.
C17_ConsistentView ==
    /\ \A i \in 1..Len(log) : HeaderFields \cup {"block_hash"} \subseteq DOMAIN log[i]
    /\ (response.code = 200 /\ response.kind = "validate-chain") =>
          /\ response.valid = validate_blockchain(log).valid
          /\ response.invalid_block = validate_blockchain(log).invalid
    /\ (response.code = 200 /\ response.kind = "health") =>
          /\ response.valid = validate_blockchain(log).valid
          /\ response.block_count = Len(log)

\* /validate-chain was just answered while a request that has read part
\* of its file is suspended, after another request's block was appended
C17_Witness ==
    /\ response.code = 200
    /\ response.kind = "validate-chain"
    /\ Len(log) >= 2
    /\ \E r \in Reqs : reqs[r].pc = "read" /\ reqs[r].file_content # <<>>

\* C15: a step that leaves an answer of /blockchain-log in the caller's
\* hands, be it the call itself or the caller's sorting the returned list
\* or writing a field of a returned block, leaves the log as it was.
C15_SnapshotByValue ==
    [][(response'.code = 200 /\ response'.kind = "blockchain-log") => log' = log]_vars

\* the caller has changed the returned list of a log of three blocks, which
\* is no longer the log sorted
C15_Witness ==
    /\ Returned
    /\ Len(log) = 3
    /\ response.blocks # SortByIndexDesc(log)
    /\ \E j \in 1..3 : response.blocks[j].result = EmptyDigest

\* C18: calculate_file_hash returns the digest of its whole input taken in
\* one step, for the empty input as for inputs of several chunks.
C18_ChunkingTransparent ==
    (call.fn = "calculate_file_hash" /\ call.done)
    => call.result = Sha256Hex(call.file_bytes)

\* the digest of an input of two whole chunks and a part of a third
C18_Witness ==
    /\ call.fn = "calculate_file_hash" /\ call.done
    /\ Len(call.file_bytes) = 2 * ChunkSize + 1

\* the string form of a header field: str() of an int, "None" for None,
\* nothing for a field that is absent
FieldString(block, key) ==
    IF key \notin DOMAIN block THEN EmptyStr
    ELSE IF key = "index" THEN IntStr(block[key])
    ELSE IF block[key] = NoneVal THEN NoneStr
    ELSE block[key]

\* the six field strings one after the other
Concatenation(block) ==
    FieldString(block, "index") \o FieldString(block, "previous_hash")
        \o FieldString(block, "timestamp") \o FieldString(block, "operation")
        \o FieldString(block, "filename") \o FieldString(block, "result")

\* C19: two blocks whose six field strings concatenate to the same string
\* get the same header hash, whatever the fields the string is split into.
C19_BoundarySplitCollision ==
    (/\ call.fn = "calculate_block_header_hash" /\ call.done
     /\ Concatenation(call.block) = Concatenation(call.other))
    => call.result = call.other_result

\* two blocks that differ in index, previous_hash, operation and filename
\* and concatenate to the same string
C19_Witness ==
    /\ call.fn = "calculate_block_header_hash" /\ call.done
    /\ call.block.index # call.other.index
    /\ call.block.previous_hash # call.other.previous_hash
    /\ call.block.operation # call.other.operation
    /\ call.block.filename # call.other.filename
    /\ Concatenation(call.block) = Concatenation(call.other)

\* the two blocks have the same fields and differ in the value of one
\* header field
DifferInOneField(b, c) ==
    /\ DOMAIN b = DOMAIN c
    /\ Cardinality({k \in DOMAIN b : b[k] # c[k]}) = 1
    /\ \E k \in HeaderFields \cap DOMAIN b : b[k] # c[k]

\* C20: two blocks that differ in the value of one header field get
\* different header hashes.
C20_SingleFieldSensitivity ==
    (/\ call.fn = "calculate_block_header_hash" /\ call.done
     /\ DifferInOneField(call.block, call.other))
    => call.result # call.other_result

\* the request has read its whole upload within the size limit: the next
\* step of its handler is the tail (lines 367-404, 547-592)
UploadRead(r) == reqs[r].pc = "read" /\ NextChunk(reqs[r]) = <<>>

\* C21: the step that ends the reading of a /hash or /verify upload answers
\* 400 and appends nothing exactly when the timestamp it generated is more
\* than Tolerance ahead of the clock value it read next; when that clock
\* value is not earlier than the timestamp, the step answers 200.
C21_FutureTimestampRejection ==
    [][\A r \in {q \in Reqs : UploadRead(q)} :
          \A filename \in Filenames, t_stamp \in Instants, t_check \in Instants :
             (HashFileTail(r, filename, t_stamp, t_check)
                \/ VerifyFileTail(r, filename, t_stamp, t_check))
             => /\ response'.code = 400 <=> t_stamp > t_check + Tolerance
                /\ response'.code = 400 => log' = log
                /\ t_check >= t_stamp => response'.code = 200]_vars

\* a /hash request was just rejected by the future-timestamp check on the
\* log of one block
C21_Witness ==
    /\ response.code = 400
    /\ response.kind = "hash"
    /\ Len(log) = 1

\* the log after the step is the log before it with one block added
AppendsOne(l_before, l_after) ==
    Len(l_after) = Len(l_before) + 1 /\ IsPrefix(l_before, l_after)

\* what the claim says a finished /hash request records
HashRecorded(r) ==
    /\ AppendsOne(log, log')
    /\ TailBlock(log').operation = OpHash
    /\ TailBlock(log').result = Sha256Hex(reqs[r].file)

\* what the claim says a finished /verify request records
VerificationRecorded(r) ==
    /\ AppendsOne(log, log')
    /\ TailBlock(log').operation = OpVerification
    /\ TailBlock(log').result =
          IF Lower(Sha256Hex(reqs[r].file)) = Lower(reqs[r].stored_hash)
          THEN StatusValid ELSE StatusInvalid

\* C22, as claimed: every /hash or /verify request whose upload was read
\* within the size limit appends one block that records its outcome.
C22_EveryRequestRecorded ==
    [][\A r \in {q \in Reqs : UploadRead(q)}, filename \in Filenames, t_stamp \in Instants, t_check \in Instants :
          /\ HashFileTail(r, filename, t_stamp, t_check) => HashRecorded(r)
          /\ VerifyFileTail(r, filename, t_stamp, t_check) => VerificationRecorded(r)]_vars

\* C22, amended: every /hash or /verify request whose upload was read
\* within the size limit and that the future-timestamp check does not
\* reject appends one block that records its outcome; a rejected one
\* appends nothing.
C22_AcceptedRequestRecorded ==
    [][\A r \in {q \in Reqs : UploadRead(q)}, filename \in Filenames, t_stamp \in Instants, t_check \in Instants :
          /\ HashFileTail(r, filename, t_stamp, t_check) =>
                IF response'.code = 400 THEN log' = log ELSE HashRecorded(r)
          /\ VerifyFileTail(r, filename, t_stamp, t_check) =>
                IF response'.code = 400 THEN log' = log
                ELSE VerificationRecorded(r)]_vars

\* a /verify request whose stored_hash is the file's digest in upper case
\* was just recorded as valid
C22_Witness ==
    /\ Appended(response)
    /\ response.kind = "verify"
    /\ response.status = StatusValid
    /\ response.stored_hash # response.current_hash
    /\ TailBlock(log).result = StatusValid

\* C23: the answer of /blockchain-log holds every block of the log once,
\* newest first, with the log's length as block_count and a validity status
\* that is "valid" exactly when validate_blockchain accepts the log.
C23_LogNewestFirst ==
    Returned =>
        /\ Len(response.blocks) = Len(log)
        /\ \A i \in 1..Len(log) :
              Cardinality({j \in 1..Len(response.blocks) : response.blocks[j] = log[i]}) = 1
        /\ \A j \in 1..(Len(response.blocks) - 1) :
              response.blocks[j].index > response.blocks[j + 1].index
        /\ response.block_count = Len(log)
        /\ response.chain_validity_status = "valid"
              <=> validate_blockchain(log) = Verdict(TRUE, <<>>)

\* /blockchain-log was just answered on a log of three blocks that the
\* validator rejects
C23_Witness ==
    /\ Returned
    /\ Len(log) = 3
    /\ response.chain_validity_status = "invalid"

\* validate_blockchain has returned its verdict on the log
ValidatorReturned == call.fn = "validate_blockchain" /\ call.done

\* the loop of validate_blockchain gets to position i: the verdict names no
\* earlier position
Reaches(verdict, i) == verdict.invalid = <<>> \/ verdict.invalid[1] >= i

\* C24: the verdict on a non-empty log is (False, 0) exactly when block 0 has
\* an index other than 0 or a previous_hash other than "0" * 64, whatever
\* the rest of the log and whatever the other fields of block 0.
C24_GenesisCheck ==
    ValidatorReturned =>
        (call.verdict = Verdict(FALSE, <<0>>)
            <=> (Blk(log, 0).index # 0 \/ Blk(log, 0).previous_hash # Zeros64))

\* the validator returned (False, 0) on a log of two blocks whose block 0
\* has index 1 and carries the header hash of its fields
C24_Witness ==
    /\ ValidatorReturned
    /\ Len(log) = 2
    /\ Blk(log, 0).index = 1
    /\ "block_hash" \in DOMAIN Blk(log, 0)
    /\ Blk(log, 0).block_hash = calculate_block_header_hash(Blk(log, 0))
    /\ call.verdict = Verdict(FALSE, <<0>>)

\* the predecessor's hash as the claim resolves it: a sequence of the one
\* value, empty when the block has none of the three fields
ClaimedPredecessorHash(previous_block) ==
    IF "block_hash" \in DOMAIN previous_block /\ Truthy(previous_block.block_hash)
    THEN <<previous_block.block_hash>>
    ELSE IF "hash" \in DOMAIN previous_block THEN <<previous_block.hash>>
    ELSE IF "current_hash" \in DOMAIN previous_block
         THEN <<previous_block.current_hash>>
    ELSE <<>>

ClaimedLinkFails(l, i) ==
    \/ ClaimedPredecessorHash(Blk(l, i - 1)) = <<>>
    \/ Blk(l, i).previous_hash # ClaimedPredecessorHash(Blk(l, i - 1))[1]

\* C25: at every position i >= 1 the validator gets to, the link check
\* compares previous_hash with the predecessor's block_hash when present and
\* not empty, else with its "hash", else with its "current_hash", and fails
\* when the predecessor has none of the three.
C25_LegacyResolution ==
    (ValidatorReturned /\ ~GenesisCheckFails(log)) =>
        \A i \in 1..(Len(log) - 1) :
            Reaches(call.verdict, i) =>
                /\ ClaimedLinkFails(log, i) => call.verdict = Verdict(FALSE, <<i>>)
                /\ (/\ call.verdict = Verdict(FALSE, <<i>>)
                    /\ ~HeaderHashCheckFails(log, i)
                    /\ ~TimestampCheckFails(log, i)) => ClaimedLinkFails(log, i)

\* C26: at every position i >= 1 the validator gets to, a block that carries
\* block_hash fails when its link, its recomputed header hash or its
\* timestamp fails, and a block without block_hash fails exactly when its
\* link or its timestamp fails.
C26_ConditionalHeaderHashCheck ==
    (ValidatorReturned /\ ~GenesisCheckFails(log)) =>
        \A i \in 1..(Len(log) - 1) :
            Reaches(call.verdict, i) =>
                (call.verdict = Verdict(FALSE, <<i>>)
                    <=> \/ LinkCheckFails(log, i)
                        \/ TimestampCheckFails(log, i)
                        \/ /\ "block_hash" \in DOMAIN Blk(log, i)
                           /\ Blk(log, i).block_hash
                                 # calculate_block_header_hash(Blk(log, i)))

\* the validator accepted a log whose block 1 carries the legacy "hash"
\* field and no block_hash
C26_Witness ==
    /\ ValidatorReturned
    /\ Len(log) = 2
    /\ "block_hash" \notin DOMAIN Blk(log, 1)
    /\ "hash" \in DOMAIN Blk(log, 1)
    /\ call.verdict = Verdict(TRUE, <<>>)

\* C30: in a log whose every block carries block_hash, changing a block's
\* "hash", "stored_hash" or "current_hash" leaves the verdict as it was.
C30_ExtraFieldsUnprotected ==
    (/\ ValidatorReturned
     /\ "before" \in DOMAIN call
     /\ \A i \in 1..Len(log) : "block_hash" \in DOMAIN log[i])
    => call.verdict = call.before

\* C27: an answer of /health says "healthy" and valid = true exactly when
\* validate_blockchain accepts the log it was computed on, "degraded" and
\* false otherwise, with the log's length as block_count; and a run of
\* health_check.py exits with 0 only if /health answered and the answer's
\* blockchain.valid is true.
C27_HealthReporting ==
    /\ (response.code = 200 /\ response.kind = "health") =>
          /\ response.status = "healthy"
                <=> validate_blockchain(log) = Verdict(TRUE, <<>>)
          /\ response.status \in {"healthy", "degraded"}
          /\ response.valid <=> validate_blockchain(log) = Verdict(TRUE, <<>>)
          /\ response.block_count = Len(log)
    /\ (call.fn = "health_check" /\ call.exit = 0) =>
          /\ call.answered
          /\ call.blockchain_valid

\* health_check.py just exited with 1 on an answer of /health that says
\* "degraded"
C27_Witness ==
    /\ call.fn = "health_check"
    /\ call.exit = 1
    /\ call.answered
    /\ ~call.blockchain_valid
    /\ response.code = 200
    /\ response.kind = "health"
    /\ response.status = "degraded"
    /\ response.block_count = 2

\* C28: with no change of the log from outside the service and a clock that
\* never moves backward and never reads earlier than the genesis time,
\* validate_blockchain returns (True, None) in every reachable state.
C28_ValidUnderMonotonicClock ==
    validate_blockchain(log) = Verdict(TRUE, <<>>)

\* /validate-chain just answered valid on a log of three blocks, the last
\* stamped later than the one before it
C28_Witness ==
    /\ Len(log) = 3
    /\ TimeOf(Blk(log, 2).timestamp) > TimeOf(Blk(log, 1).timestamp)
    /\ response.code = 200
    /\ response.kind = "validate-chain"
    /\ response.valid

\* C29: whatever hash fields the tail of the log carries, the previous_hash
\* that /hash and /verify give the block they append is the value the
\* validator resolves for that tail, and the appended block passes the link
\* check.
C29_SameResolution ==
    [][Appended(response') =>
          /\ TailBlock(log').previous_hash = ResolvePrev(TailBlock(log))
          /\ ~LinkCheckFails(log', Len(log') - 1)]_vars

====
